---- MODULE Spec2Model ----
(***************************************************************************)
(* Model of the Hedge Edge license DLL (HedgeEdgeLicense.cpp/.h): the      *)
(* process-wide state of the anonymous namespace, the exported operations, *)
(* each run under g_mutex, and the helpers they call.  Strings are TLA+    *)
(* strings; time is counted in ticks of 1/TicksPerSec second.              *)
(***************************************************************************)
EXTENDS Integers, Sequences, FiniteSets, TLC

(* ------------------------------------------------------------------ *)
(* Bounds of the model                                                  *)
(* ------------------------------------------------------------------ *)
\* Clock ticks per second, and the last tick the clock is followed to.
TicksPerSec == 2
MaxNow == 4

Threads == {1, 2}

(* ------------------------------------------------------------------ *)
(* Program constants                                                    *)
(* ------------------------------------------------------------------ *)
MAX_RETRIES == 3
BASE_RETRY_DELAY_MS == 1000
DEFAULT_TTL == 900
OUT_TOKEN_MAX == 511
OUT_ERROR_MAX == 255
HTTP_OK == 200
INT_MAX == 2147483647
INTERNET_DEFAULT_HTTPS_PORT == 443

DefaultEndpointUrl == "https://api.hedge-edge.com/v1/license/validate"

\* A null pointer passed for a const char* / char* parameter.
NullPtr == "<nullptr>"
\* The contents of a caller's buffer the call did not write.
Unwritten == "<unwritten>"
\* g_mutex when no thread owns it.
NoThread == 0

(* ------------------------------------------------------------------ *)
(* String helpers                                                       *)
(* ------------------------------------------------------------------ *)
Min(S) == CHOOSE x \in S : \A y \in S : x <= y

CharAt(s, i) == SubSeq(s, i, i)

\* std::string::find(pat, from), 1-based; 0 stands for npos.
StrFind(s, pat, from) ==
    LET hits == {i \in from..(Len(s) - Len(pat) + 1) : SubSeq(s, i, i + Len(pat) - 1) = pat}
    IN IF hits = {} THEN 0 ELSE Min(hits)

\* The first index >= from whose character is not in skip, or Len(s)+1.
SkipWhile(s, from, skip) ==
    Min({i \in from..(Len(s) + 1) : i = Len(s) + 1 \/ CharAt(s, i) \notin skip})

\* strncpy(dst, src, n) as the caller then reads dst: src when it fits with its
\* terminator; otherwise n characters without one, followed by what dst held.
StrNCpy(dst, src, n) ==
    IF Len(src) < n THEN src ELSE SubSeq(src, 1, n) \o SubSeq(dst, n + 1, Len(dst))

\* strncpy(dst, src, len - 1); dst[len - 1] = '\0'.
StrNCpyTerminated(src, len) ==
    IF Len(src) < len - 1 THEN src ELSE SubSeq(src, 1, len - 1)

EscapeChar(c) ==
    CASE c = "\"" -> "\\\""
      [] c = "\\" -> "\\\\"
      [] c = "\f" -> "\\f"
      [] c = "\n" -> "\\n"
      [] c = "\r" -> "\\r"
      [] c = "\t" -> "\\t"
      [] OTHER -> c

RECURSIVE EscapeFrom(_, _)
EscapeFrom(str, i) ==
    IF i > Len(str) THEN "" ELSE EscapeChar(CharAt(str, i)) \o EscapeFrom(str, i + 1)

EscapeJson(str) == EscapeFrom(str, 1)

ExtractJsonValue(json, key) ==
    LET searchKey == "\"" \o key \o "\":"
        keyPos == StrFind(json, searchKey, 1)
        valueStart == SkipWhile(json, keyPos + Len(searchKey), {" ", "\t"})
    IN IF keyPos = 0 THEN ""
       ELSE IF valueStart > Len(json) THEN ""
       ELSE IF CharAt(json, valueStart) = "\""
            THEN LET valueEnd == StrFind(json, "\"", valueStart + 1)
                 IN IF valueEnd = 0 THEN ""
                    ELSE SubSeq(json, valueStart + 1, valueEnd - 1)
            ELSE LET valueEnd == SkipWhile(json, valueStart,
                                           {c \in {CharAt(json, i) : i \in 1..Len(json)} :
                                                c \notin {",", "}", "]", " "}})
                 IN SubSeq(json, valueStart, valueEnd - 1)

Digits == {"0", "1", "2", "3", "4", "5", "6", "7", "8", "9"}
DigitValue(c) == CHOOSE d \in 0..9 : ToString(d) = c

\* The digits s[i..last] accumulated as a non-positive number, the way strtol
\* does within the width of a 32-bit long; 1 reports that the range is left.
RECURSIVE DigitsValue(_, _, _, _)
DigitsValue(s, i, last, acc) ==
    IF i > last THEN acc
    ELSE LET d == DigitValue(CharAt(s, i))
             limit == INT_MAX \div 10
         IN IF acc < 0 - limit \/ (acc = 0 - limit /\ d > 8) THEN 1
            ELSE DigitsValue(s, i + 1, last, 10 * acc - d)

\* std::stoi(s): skips white space, takes an optional sign and the longest run
\* of decimal digits; throws std::invalid_argument when there is no digit and
\* std::out_of_range when the value does not fit an int.
Stoi(s) ==
    LET start == SkipWhile(s, 1, {" ", "\t", "\n", "\r", "\f"})
        signed == start <= Len(s) /\ CharAt(s, start) \in {"+", "-"}
        negative == signed /\ CharAt(s, start) = "-"
        first == IF signed THEN start + 1 ELSE start
        stop == SkipWhile(s, first, Digits)
        neg == DigitsValue(s, first, stop - 1, 0)
    IN IF stop = first THEN [threw |-> TRUE, value |-> 0]
       ELSE IF neg = 1 \/ (~negative /\ neg = 0 - INT_MAX - 1)
            THEN [threw |-> TRUE, value |-> 0]
       ELSE [threw |-> FALSE, value |-> IF negative THEN neg ELSE 0 - neg]

(* ------------------------------------------------------------------ *)
(* Utf8ToWide and WinHttpCrackUrl                                       *)
(* ------------------------------------------------------------------ *)
Utf8ToWide(utf8) == IF utf8 = NullPtr \/ utf8 = "" THEN "" ELSE utf8

AltEndpointUrl == "http://localhost:8080/validate"
BadUrl == "not a url"

\* WinHttpCrackUrl on the URLs the model passes: scheme://host[:port]path.
WinHttpCrackUrl(url) ==
    LET sep == StrFind(url, "://", 1)
        scheme == SubSeq(url, 1, sep - 1)
        hostStart == sep + 3
        slash == StrFind(url, "/", hostStart)
        authEnd == IF slash = 0 THEN Len(url) ELSE slash - 1
        colon == StrFind(SubSeq(url, 1, authEnd), ":", hostStart)
        hostEnd == IF colon = 0 THEN authEnd ELSE colon - 1
        portStr == IF colon = 0 THEN "" ELSE SubSeq(url, colon + 1, authEnd)
        known == scheme \in {"http", "https"}
    IN IF sep = 0 \/ ~known \/ hostEnd < hostStart \/ (colon # 0 /\ Stoi(portStr).threw)
       THEN [ok |-> FALSE, host |-> "", path |-> "", port |-> 0, https |-> FALSE]
       ELSE [ok |-> TRUE,
             host |-> SubSeq(url, hostStart, hostEnd),
             path |-> IF slash = 0 THEN "" ELSE SubSeq(url, slash, Len(url)),
             port |-> IF colon # 0 THEN Stoi(portStr).value
                      ELSE IF scheme = "https" THEN INTERNET_DEFAULT_HTTPS_PORT ELSE 80,
             https |-> scheme = "https"]

(* ------------------------------------------------------------------ *)
(* State                                                                *)
(* ------------------------------------------------------------------ *)
VARIABLES
    g_mutex,          \* the thread that owns g_mutex, or NoThread
    g_cachedToken, g_tokenExpiry, g_tokenTTL,
    g_endpointUrl, g_endpointHost, g_endpointPath, g_endpointPort, g_useHttps,
    g_lastError,
    g_hSession,       \* TRUE when the WinHTTP session handle is not nullptr
    g_initialized,
    now,              \* std::chrono::system_clock::now(), in ticks
    pc,               \* per thread: where it stands in the exported call it runs
    call,             \* per thread: the arguments of that call
    entry,            \* per thread: the shared state when it took g_mutex
    attempt, success, httpStatus, responseBody, requestBody,  \* ValidateLicense's locals
    log,              \* per thread: the Sleep and HttpPost calls of its ValidateLicense
    ret               \* per thread: the return value and the out buffers of its call

cache == <<g_cachedToken, g_tokenExpiry, g_tokenTTL>>
endpoint == <<g_endpointHost, g_endpointPath, g_endpointPort, g_useHttps>>
shared == <<cache, endpoint, g_endpointUrl, g_lastError, g_hSession, g_initialized>>
locals == <<attempt, success, httpStatus, responseBody, requestBody, log>>
vars == <<g_mutex, shared, now, pc, call, entry, locals, ret>>

NoCall == [key |-> NullPtr, account |-> NullPtr, broker |-> NullPtr, deviceId |-> NullPtr,
           endpointUrl |-> NullPtr, outToken |-> FALSE, outError |-> FALSE, len |-> 0]
NoEntry == [token |-> "", expiry |-> 0, ttl |-> 0, url |-> "", host |-> "", path |-> "",
            port |-> 0, https |-> FALSE, lastError |-> "", hSession |-> FALSE,
            initialized |-> FALSE]
NoRet == [op |-> "", code |-> 0, outToken |-> Unwritten, outError |-> Unwritten, threw |-> FALSE]

\* The shared state as the thread that takes g_mutex finds it.
Snapshot ==
    [token |-> g_cachedToken, expiry |-> g_tokenExpiry, ttl |-> g_tokenTTL,
     url |-> g_endpointUrl, host |-> g_endpointHost, path |-> g_endpointPath,
     port |-> g_endpointPort, https |-> g_useHttps, lastError |-> g_lastError,
     hSession |-> g_hSession, initialized |-> g_initialized]

Init ==
    /\ g_mutex = NoThread
    /\ g_cachedToken = "" /\ g_tokenExpiry = 0 /\ g_tokenTTL = 0
    /\ g_endpointUrl = DefaultEndpointUrl
    /\ g_endpointHost = "" /\ g_endpointPath = ""
    /\ g_endpointPort = INTERNET_DEFAULT_HTTPS_PORT /\ g_useHttps = TRUE
    /\ g_lastError = ""
    /\ g_hSession = FALSE
    /\ g_initialized = FALSE
    /\ now = 1
    /\ pc = [t \in Threads |-> "idle"]
    /\ call = [t \in Threads |-> NoCall]
    /\ entry = [t \in Threads |-> NoEntry]
    /\ attempt = [t \in Threads |-> 0]
    /\ success = [t \in Threads |-> FALSE]
    /\ httpStatus = [t \in Threads |-> 0]
    /\ responseBody = [t \in Threads |-> ""]
    /\ requestBody = [t \in Threads |-> ""]
    /\ log = [t \in Threads |-> <<>>]
    /\ ret = [t \in Threads |-> NoRet]

(* ------------------------------------------------------------------ *)
(* g_mutex                                                              *)
(* ------------------------------------------------------------------ *)
\* CanLock without waiting for the mutex.
CanLockAlways(t) == pc[t] = "idle"

\* std::lock_guard<std::mutex> lock(g_mutex): the caller blocks until the
\* mutex is free and then owns it.
CanLock(t) == pc[t] = "idle" /\ g_mutex = NoThread

Lock(t, a) ==
    /\ CanLock(t)
    /\ g_mutex' = t
    /\ call' = [call EXCEPT ![t] = a]
    /\ entry' = [entry EXCEPT ![t] = Snapshot]

\* The return statement of an exported function: the value is fixed, the
\* lock_guard still holds g_mutex.
Return(t, op, code, outToken, outError) ==
    /\ pc' = [pc EXCEPT ![t] = "return"]
    /\ ret' = [ret EXCEPT ![t] = [op |-> op, code |-> code, outToken |-> outToken,
                                  outError |-> outError, threw |-> FALSE]]

\* The lock_guard's destructor; the caller then has the result and the model
\* forgets the finished call.
Unlock(t) ==
    /\ pc[t] = "return"
    /\ g_mutex = t
    /\ g_mutex' = NoThread
    /\ pc' = [pc EXCEPT ![t] = "idle"]
    /\ call' = [call EXCEPT ![t] = NoCall]
    /\ entry' = [entry EXCEPT ![t] = NoEntry]
    /\ attempt' = [attempt EXCEPT ![t] = 0]
    /\ success' = [success EXCEPT ![t] = FALSE]
    /\ httpStatus' = [httpStatus EXCEPT ![t] = 0]
    /\ responseBody' = [responseBody EXCEPT ![t] = ""]
    /\ requestBody' = [requestBody EXCEPT ![t] = ""]
    /\ log' = [log EXCEPT ![t] = <<>>]
    /\ ret' = [ret EXCEPT ![t] = NoRet]
    /\ UNCHANGED <<shared, now>>

(* ------------------------------------------------------------------ *)
(* The clock                                                            *)
(* ------------------------------------------------------------------ *)
Tick ==
    /\ now < MaxNow
    /\ now' = now + 1
    /\ UNCHANGED <<g_mutex, shared, pc, call, entry, locals, ret>>

(* ------------------------------------------------------------------ *)
(* ParseUrl                                                             *)
(* ------------------------------------------------------------------ *)
\* ParseUrl clearing the endpoint when the URL does not parse.
ParseUrlClearingOnFailure(url) ==
    LET c == WinHttpCrackUrl(url)
    IN [ok |-> c.ok, host |-> c.host, path |-> c.path, port |-> c.port, https |-> c.https,
        lastError |-> IF c.ok THEN g_lastError ELSE "Failed to parse URL"]

\* What ParseUrl(url) returns and leaves in g_endpoint* and g_lastError.
ParseUrl(url) ==
    LET c == WinHttpCrackUrl(url)
    IN IF ~c.ok
       THEN [ok |-> FALSE, host |-> g_endpointHost, path |-> g_endpointPath,
             port |-> g_endpointPort, https |-> g_useHttps,
             lastError |-> "Failed to parse URL"]
       ELSE [ok |-> TRUE, host |-> c.host, path |-> c.path, port |-> c.port,
             https |-> c.https, lastError |-> g_lastError]

SetEndpointTo(p) ==
    /\ g_endpointHost' = p.host
    /\ g_endpointPath' = p.path
    /\ g_endpointPort' = p.port
    /\ g_useHttps' = p.https
    /\ g_lastError' = p.lastError

(* ------------------------------------------------------------------ *)
(* InitializeLibrary, ShutdownLibrary, SetEndpoint                      *)
(* ------------------------------------------------------------------ *)
\* InitializeLibrary setting g_initialized although WinHttpOpen failed.
InitializeLibraryMarkingInitialized(t, opened, winErr) ==
    /\ Lock(t, NoCall)
    /\ IF g_initialized
       THEN /\ Return(t, "InitializeLibrary", 0, Unwritten, Unwritten)
            /\ UNCHANGED shared
       ELSE IF ~opened
       THEN /\ g_hSession' = FALSE
            /\ g_initialized' = TRUE
            /\ g_lastError' = "Failed to create HTTP session: " \o ToString(winErr)
            /\ Return(t, "InitializeLibrary", -1, Unwritten, Unwritten)
            /\ UNCHANGED <<cache, endpoint, g_endpointUrl>>
       ELSE LET p == ParseUrl(g_endpointUrl)
            IN /\ SetEndpointTo(p)
               /\ g_hSession' = p.ok
               /\ g_initialized' = p.ok
               /\ Return(t, "InitializeLibrary", IF p.ok THEN 0 ELSE -2, Unwritten, Unwritten)
               /\ UNCHANGED <<cache, g_endpointUrl>>
    /\ UNCHANGED <<now, locals>>

\* InitializeLibrary parsing g_endpointUrl again when already initialized.
InitializeLibraryReparsing(t, opened, winErr) ==
    /\ Lock(t, NoCall)
    /\ IF ~opened /\ ~g_initialized
       THEN /\ g_hSession' = FALSE
            /\ g_lastError' = "Failed to create HTTP session: " \o ToString(winErr)
            /\ Return(t, "InitializeLibrary", -1, Unwritten, Unwritten)
            /\ UNCHANGED <<cache, endpoint, g_endpointUrl, g_initialized>>
       ELSE LET p == ParseUrl(g_endpointUrl)
            IN /\ SetEndpointTo(p)
               /\ g_hSession' = p.ok
               /\ g_initialized' = p.ok
               /\ Return(t, "InitializeLibrary", IF p.ok THEN 0 ELSE -2, Unwritten, Unwritten)
               /\ UNCHANGED <<cache, g_endpointUrl>>
    /\ UNCHANGED <<now, locals>>

\* opened: whether WinHttpOpen returns a handle; winErr: ::GetLastError() if not.
InitializeLibrary(t, opened, winErr) ==
    /\ Lock(t, NoCall)
    /\ IF g_initialized
       THEN /\ Return(t, "InitializeLibrary", 0, Unwritten, Unwritten)
            /\ UNCHANGED shared
       ELSE IF ~opened
       THEN /\ g_hSession' = FALSE
            /\ g_lastError' = "Failed to create HTTP session: " \o ToString(winErr)
            /\ Return(t, "InitializeLibrary", -1, Unwritten, Unwritten)
            /\ UNCHANGED <<cache, endpoint, g_endpointUrl, g_initialized>>
       ELSE LET p == ParseUrl(g_endpointUrl)
            IN /\ SetEndpointTo(p)
               /\ g_hSession' = p.ok
               /\ g_initialized' = p.ok
               /\ Return(t, "InitializeLibrary", IF p.ok THEN 0 ELSE -2, Unwritten, Unwritten)
               /\ UNCHANGED <<cache, g_endpointUrl>>
    /\ UNCHANGED <<now, locals>>

\* ShutdownLibrary without clearing the cache.
ShutdownLibraryKeepingCache(t) ==
    /\ Lock(t, NoCall)
    /\ IF ~g_initialized
       THEN UNCHANGED shared
       ELSE /\ g_hSession' = FALSE
            /\ g_initialized' = FALSE
            /\ UNCHANGED <<cache, endpoint, g_endpointUrl, g_lastError>>
    /\ Return(t, "ShutdownLibrary", 0, Unwritten, Unwritten)
    /\ UNCHANGED <<now, locals>>

\* ShutdownLibrary without resetting g_initialized.
ShutdownLibraryStaysInitialized(t) ==
    /\ Lock(t, NoCall)
    /\ IF ~g_initialized
       THEN UNCHANGED shared
       ELSE /\ g_cachedToken' = ""
            /\ g_tokenTTL' = 0
            /\ g_hSession' = FALSE
            /\ UNCHANGED <<g_tokenExpiry, endpoint, g_endpointUrl, g_lastError, g_initialized>>
    /\ Return(t, "ShutdownLibrary", 0, Unwritten, Unwritten)
    /\ UNCHANGED <<now, locals>>

ShutdownLibrary(t) ==
    /\ Lock(t, NoCall)
    /\ IF ~g_initialized
       THEN UNCHANGED shared
       ELSE /\ g_cachedToken' = ""
            /\ g_tokenTTL' = 0
            /\ g_hSession' = FALSE
            /\ g_initialized' = FALSE
            /\ UNCHANGED <<g_tokenExpiry, endpoint, g_endpointUrl, g_lastError>>
    /\ Return(t, "ShutdownLibrary", 0, Unwritten, Unwritten)
    /\ UNCHANGED <<now, locals>>

SetEndpoint(t, url) ==
    /\ Lock(t, [NoCall EXCEPT !.endpointUrl = url])
    /\ IF url = NullPtr \/ url = ""
       THEN UNCHANGED shared
       ELSE LET wideUrl == Utf8ToWide(url)
                p == ParseUrl(wideUrl)
            IN /\ SetEndpointTo(p)
               /\ g_endpointUrl' = IF p.ok THEN wideUrl ELSE g_endpointUrl
               /\ UNCHANGED <<cache, g_hSession, g_initialized>>
    /\ Return(t, "SetEndpoint", 0, Unwritten, Unwritten)
    /\ UNCHANGED <<now, locals>>

(* ------------------------------------------------------------------ *)
(* HttpPost                                                             *)
(* ------------------------------------------------------------------ *)
\* What the WinHTTP calls of one HttpPost do: the first call that fails (kind),
\* ::GetLastError() then (winErr), and the status and body the server sent.
Outcome(kind, winErr, status, body) ==
    [kind |-> kind, winErr |-> winErr, status |-> status, body |-> body]

HttpPostError(o) ==
    CASE o.kind = "connect" -> "Failed to connect to server: " \o ToString(o.winErr)
      [] o.kind = "open"    -> "Failed to create request: " \o ToString(o.winErr)
      [] o.kind = "headers" -> "Failed to add headers: " \o ToString(o.winErr)
      [] o.kind = "tls"     -> "TLS/SSL certificate error"
      [] o.kind = "send"    -> "Failed to send request: " \o ToString(o.winErr)
      [] o.kind = "receive" -> "Failed to receive response: " \o ToString(o.winErr)
      [] o.kind = "status"  -> "Failed to get status code: " \o ToString(o.winErr)
      [] o.kind = "data"    -> "Failed to query data: " \o ToString(o.winErr)

\* HttpPost(requestBody, responseBody, httpStatus) of thread t: the value it
\* returns and what it leaves in its two reference parameters and g_lastError.
HttpPost(t, o) ==
    IF ~g_hSession
    THEN [success |-> FALSE, lastError |-> "HTTP session not initialized",
          httpStatus |-> httpStatus[t], responseBody |-> responseBody[t]]
    ELSE IF o.kind = "ok"
    THEN [success |-> TRUE, lastError |-> g_lastError,
          httpStatus |-> o.status, responseBody |-> o.body]
    ELSE IF o.kind = "data"
    THEN [success |-> FALSE, lastError |-> HttpPostError(o),
          httpStatus |-> o.status, responseBody |-> o.body]
    ELSE [success |-> FALSE, lastError |-> HttpPostError(o),
          httpStatus |-> httpStatus[t], responseBody |-> responseBody[t]]

(* ------------------------------------------------------------------ *)
(* ValidateLicense                                                      *)
(* ------------------------------------------------------------------ *)
OrEmpty(str) == IF str = NullPtr THEN "" ELSE str

RequestJson(a) ==
    "{" \o "\"licenseKey\":\"" \o EscapeJson(OrEmpty(a.key)) \o "\","
        \o "\"accountId\":\"" \o EscapeJson(OrEmpty(a.account)) \o "\","
        \o "\"broker\":\"" \o EscapeJson(OrEmpty(a.broker)) \o "\","
        \o "\"deviceId\":\"" \o EscapeJson(OrEmpty(a.deviceId)) \o "\","
        \o "\"platform\":\"MT5\","
        \o "\"version\":\"1.0.0\""
        \o "}"

\* CacheIsFresh with the comparison one tick off.
CacheIsFreshEarly == g_cachedToken # "" /\ now + 1 < g_tokenExpiry

\* !g_cachedToken.empty() && now < g_tokenExpiry
CacheIsFresh == g_cachedToken # "" /\ now < g_tokenExpiry

\* The out buffers after "if (out) strncpy(out, text, n)".
CopyOut(given, text, n) == IF given THEN StrNCpy(Unwritten, text, n) ELSE Unwritten

\* LoopContinues without the test of success.
LoopContinuesIgnoringSuccess(n, ok) == n < 3

\* attempt < MAX_RETRIES && !success, for the values n and ok of the two.
LoopContinues(n, ok) == n < MAX_RETRIES /\ ~ok

\* DelayMs without the doubling.
DelayMsFlat(n) == 1000

\* delayMs of line 461.
DelayMs(n) == BASE_RETRY_DELAY_MS * (2 ^ (n - 1))

\* The clock after a blocking call that lasts ms milliseconds.
After(ms) ==
    LET wake == now + (ms * TicksPerSec) \div 1000
    IN IF wake > MaxNow THEN MaxNow ELSE wake

LogSleep(ms) == [op |-> "Sleep", ms |-> ms, ok |-> FALSE, err |-> "", host |-> "",
                 path |-> "", port |-> 0, https |-> FALSE]
\* HttpPost connects to g_endpointHost at g_endpointPort (line 208) and posts to
\* g_endpointPath, over TLS when g_useHttps (lines 216-219).
LogPost(r) == [op |-> "HttpPost", ms |-> 0, ok |-> r.success, err |-> r.lastError,
               host |-> g_endpointHost, path |-> g_endpointPath,
               port |-> g_endpointPort, https |-> g_useHttps]

\* ValidateLicense serving the cache only to a caller that presents a key.
ValidateLicenseCacheForKey(t, a) ==
    /\ Lock(t, a)
    /\ IF ~g_initialized
       THEN /\ Return(t, "ValidateLicense", -1, Unwritten,
                      CopyOut(a.outError, "Library not initialized", OUT_ERROR_MAX))
            /\ UNCHANGED <<shared, requestBody>>
       ELSE IF CacheIsFresh /\ a.key # NullPtr
       THEN /\ Return(t, "ValidateLicense", 0,
                      CopyOut(a.outToken, g_cachedToken, OUT_TOKEN_MAX), Unwritten)
            /\ UNCHANGED <<shared, requestBody>>
       ELSE /\ IF a.endpointUrl # NullPtr /\ a.endpointUrl # "" /\ Utf8ToWide(a.endpointUrl) # ""
               THEN SetEndpointTo(ParseUrl(Utf8ToWide(a.endpointUrl)))
               ELSE UNCHANGED <<endpoint, g_lastError>>
            /\ requestBody' = [requestBody EXCEPT ![t] = RequestJson(a)]
            /\ pc' = [pc EXCEPT ![t] = "post"]
            /\ UNCHANGED <<cache, g_endpointUrl, g_hSession, g_initialized, ret>>
    /\ UNCHANGED <<now, attempt, success, httpStatus, responseBody, log>>

\* ValidateLicense applying the endpoint override before the cache check.
ValidateLicenseOverrideFirst(t, a) ==
    /\ Lock(t, a)
    /\ IF ~g_initialized
       THEN /\ Return(t, "ValidateLicense", -1, Unwritten,
                      CopyOut(a.outError, "Library not initialized", OUT_ERROR_MAX))
            /\ UNCHANGED <<shared, requestBody>>
       ELSE /\ IF a.endpointUrl # NullPtr /\ a.endpointUrl # ""
               THEN SetEndpointTo(ParseUrl(Utf8ToWide(a.endpointUrl)))
               ELSE UNCHANGED <<endpoint, g_lastError>>
            /\ IF CacheIsFresh
               THEN /\ Return(t, "ValidateLicense", 0,
                              CopyOut(a.outToken, g_cachedToken, OUT_TOKEN_MAX), Unwritten)
                    /\ UNCHANGED requestBody
               ELSE /\ requestBody' = [requestBody EXCEPT ![t] = RequestJson(a)]
                    /\ pc' = [pc EXCEPT ![t] = "post"]
                    /\ UNCHANGED ret
            /\ UNCHANGED <<cache, g_endpointUrl, g_hSession, g_initialized>>
    /\ UNCHANGED <<now, attempt, success, httpStatus, responseBody, log>>

\* Lines 406-452: the initialized check, the cache check, the endpoint
\* override and the request body; the thread then stands before the first
\* HttpPost of the retry loop.
ValidateLicense(t, a) ==
    /\ Lock(t, a)
    /\ IF ~g_initialized
       THEN /\ Return(t, "ValidateLicense", -1, Unwritten,
                      CopyOut(a.outError, "Library not initialized", OUT_ERROR_MAX))
            /\ UNCHANGED <<shared, requestBody>>
       ELSE IF CacheIsFresh
       THEN /\ Return(t, "ValidateLicense", 0,
                      CopyOut(a.outToken, g_cachedToken, OUT_TOKEN_MAX), Unwritten)
            /\ UNCHANGED <<shared, requestBody>>
       ELSE /\ IF a.endpointUrl # NullPtr /\ a.endpointUrl # "" /\ Utf8ToWide(a.endpointUrl) # ""
               THEN SetEndpointTo(ParseUrl(Utf8ToWide(a.endpointUrl)))
               ELSE UNCHANGED <<endpoint, g_lastError>>
            /\ requestBody' = [requestBody EXCEPT ![t] = RequestJson(a)]
            /\ pc' = [pc EXCEPT ![t] = "post"]
            /\ UNCHANGED <<cache, g_endpointUrl, g_hSession, g_initialized, ret>>
    /\ UNCHANGED <<now, attempt, success, httpStatus, responseBody, log>>

\* Lines 458-463: Sleep(delayMs) before every attempt but the first.
ValidateSleep(t) ==
    /\ pc[t] = "sleep"
    /\ g_mutex = t
    /\ now' = After(DelayMs(attempt[t]))
    /\ log' = [log EXCEPT ![t] = Append(@, LogSleep(DelayMs(attempt[t])))]
    /\ pc' = [pc EXCEPT ![t] = "post"]
    /\ UNCHANGED <<g_mutex, shared, call, entry, attempt, success, httpStatus,
                   responseBody, requestBody, ret>>

\* ParseTtl with "ttl < 0" for "ttl <= 0".
ParseTtlNegativeOnly(ttlStr) ==
    IF ttlStr = "" THEN [threw |-> FALSE, value |-> 900]
    ELSE LET n == Stoi(ttlStr)
         IN IF n.threw THEN n
            ELSE [threw |-> FALSE, value |-> IF n.value < 0 THEN 900 ELSE n.value]

\* ttl of lines 512-517; the std::stoi of line 515 may throw.
ParseTtl(ttlStr) ==
    IF ttlStr = "" THEN [threw |-> FALSE, value |-> DEFAULT_TTL]
    ELSE LET n == Stoi(ttlStr)
         IN IF n.threw THEN n
            ELSE [threw |-> FALSE, value |-> IF n.value <= 0 THEN DEFAULT_TTL ELSE n.value]

\* ExpiryFor without the TTL.
ExpiryForNow(ttl) == now

\* g_tokenExpiry of line 522.
ExpiryFor(ttl) == now + ttl * TicksPerSec

\* Lines 468-475: every attempt failed.
ReturnNetworkError(t, r) ==
    /\ g_lastError' = r.lastError
    /\ Return(t, "ValidateLicense", -2, Unwritten,
              CopyOut(call[t].outError, r.lastError, OUT_ERROR_MAX))
    /\ UNCHANGED cache

\* ReturnHttpStatusError clearing the cache as ReturnLicenseInvalid does.
ReturnHttpStatusErrorClearing(t, r) ==
    /\ g_lastError' = "HTTP " \o ToString(r.httpStatus) \o ": " \o r.responseBody
    /\ g_cachedToken' = ""
    /\ g_tokenTTL' = 0
    /\ Return(t, "ValidateLicense", -3, Unwritten,
              CopyOut(call[t].outError, g_lastError', OUT_ERROR_MAX))
    /\ UNCHANGED g_tokenExpiry

\* Lines 478-486: the exchange completed with a status other than 200.
ReturnHttpStatusError(t, r) ==
    LET statusError == "HTTP " \o ToString(r.httpStatus) \o ": " \o r.responseBody
    IN /\ g_lastError' = statusError
       /\ Return(t, "ValidateLicense", -3, Unwritten,
                 CopyOut(call[t].outError, statusError, OUT_ERROR_MAX))
       /\ UNCHANGED cache

\* ReturnLicenseInvalid without clearing the cache.
ReturnLicenseInvalidKeeping(t, r) ==
    LET message == ExtractJsonValue(r.responseBody, "message")
    IN /\ g_lastError' = (IF message = "" THEN "License invalid" ELSE message)
       /\ Return(t, "ValidateLicense", -4, Unwritten,
                 CopyOut(call[t].outError, g_lastError', OUT_ERROR_MAX))
       /\ UNCHANGED cache

\* Lines 491-506: the response does not say "valid":true.
ReturnLicenseInvalid(t, r) ==
    LET message == ExtractJsonValue(r.responseBody, "message")
        invalidError == IF message = "" THEN "License invalid" ELSE message
    IN /\ g_lastError' = invalidError
       /\ g_cachedToken' = ""
       /\ g_tokenTTL' = 0
       /\ Return(t, "ValidateLicense", -4, Unwritten,
                 CopyOut(call[t].outError, invalidError, OUT_ERROR_MAX))
       /\ UNCHANGED g_tokenExpiry

\* Line 515 when std::stoi throws: nothing of lines 516-531 runs, the
\* exception unwinds through the lock_guard and leaves ValidateLicense.
ThrowFromStoi(t, r) ==
    /\ g_lastError' = r.lastError
    /\ pc' = [pc EXCEPT ![t] = "return"]
    /\ ret' = [ret EXCEPT ![t] = [NoRet EXCEPT !.op = "ValidateLicense", !.threw = TRUE]]
    /\ UNCHANGED cache

\* Lines 519-531: the token is cached and returned.
CacheAndReturn(t, token, ttl) ==
    /\ g_cachedToken' = token
    /\ g_tokenTTL' = ttl
    /\ g_tokenExpiry' = ExpiryFor(ttl)
    /\ g_lastError' = ""
    /\ Return(t, "ValidateLicense", 0,
              CopyOut(call[t].outToken, token, OUT_TOKEN_MAX), Unwritten)

\* Lines 468-532, once the retry loop is left with HttpPost's result r.
ValidateFinish(t, r) ==
    LET valid == ExtractJsonValue(r.responseBody, "valid")
        token == ExtractJsonValue(r.responseBody, "token")
        ttl == ParseTtl(ExtractJsonValue(r.responseBody, "ttlSeconds"))
    IN IF ~r.success THEN ReturnNetworkError(t, r)
       ELSE IF r.httpStatus # HTTP_OK THEN ReturnHttpStatusError(t, r)
       ELSE IF valid # "true" THEN ReturnLicenseInvalid(t, r)
       ELSE IF ttl.threw THEN ThrowFromStoi(t, r)
       ELSE CacheAndReturn(t, token, ttl.value)

\* One turn of the retry loop from line 465 on: HttpPost, attempt++, and then
\* either the next turn, which starts with Sleep, or the code after the loop.
ValidateHttpPost(t, o) ==
    /\ pc[t] = "post"
    /\ g_mutex = t
    /\ LET r == HttpPost(t, o)
       IN /\ success' = [success EXCEPT ![t] = r.success]
          /\ httpStatus' = [httpStatus EXCEPT ![t] = r.httpStatus]
          /\ responseBody' = [responseBody EXCEPT ![t] = r.responseBody]
          /\ log' = [log EXCEPT ![t] = Append(@, LogPost(r))]
          /\ attempt' = [attempt EXCEPT ![t] = @ + 1]
          /\ IF LoopContinues(attempt[t] + 1, r.success)
             THEN /\ g_lastError' = r.lastError
                  /\ pc' = [pc EXCEPT ![t] = "sleep"]
                  /\ UNCHANGED <<cache, ret>>
             ELSE ValidateFinish(t, r)
    /\ UNCHANGED <<g_mutex, endpoint, g_endpointUrl, g_hSession, g_initialized,
                   now, call, entry, requestBody>>

(* ------------------------------------------------------------------ *)
(* The cache readers, ClearCache and GetLastError                       *)
(* ------------------------------------------------------------------ *)
GetCachedTokenCode == IF g_cachedToken = "" THEN -1 ELSE IF now >= g_tokenExpiry THEN -2 ELSE 0

\* IsTokenValidCode counting the instant of the expiry as valid.
IsTokenValidCodeInclusive ==
    IF g_cachedToken = "" THEN 0 ELSE IF now <= g_tokenExpiry THEN 1 ELSE 0

IsTokenValidCode == IF g_cachedToken = "" THEN 0 ELSE IF now < g_tokenExpiry THEN 1 ELSE 0

\* GetTokenTTLCode rounding up.
GetTokenTTLCodeCeiling ==
    IF g_cachedToken = "" THEN 0
    ELSE IF now >= g_tokenExpiry THEN 0
    ELSE (g_tokenExpiry - now + TicksPerSec - 1) \div TicksPerSec

\* GetTokenTTLCode without the test of the expiry.
GetTokenTTLCodeUnchecked ==
    IF g_cachedToken = "" THEN 0 ELSE (g_tokenExpiry - now) \div TicksPerSec

\* duration_cast<seconds> truncates toward zero.
GetTokenTTLCode ==
    IF g_cachedToken = "" THEN 0
    ELSE IF now >= g_tokenExpiry THEN 0
    ELSE (g_tokenExpiry - now) \div TicksPerSec

GetCachedToken(t, given, tokenLen) ==
    /\ Lock(t, [NoCall EXCEPT !.outToken = given, !.len = tokenLen])
    /\ Return(t, "GetCachedToken", GetCachedTokenCode,
              IF GetCachedTokenCode = 0 /\ given /\ tokenLen > 0
              THEN StrNCpyTerminated(g_cachedToken, tokenLen) ELSE Unwritten,
              Unwritten)
    /\ UNCHANGED <<shared, now, locals>>

IsTokenValid(t) ==
    /\ Lock(t, NoCall)
    /\ Return(t, "IsTokenValid", IsTokenValidCode, Unwritten, Unwritten)
    /\ UNCHANGED <<shared, now, locals>>

GetTokenTTL(t) ==
    /\ Lock(t, NoCall)
    /\ Return(t, "GetTokenTTL", GetTokenTTLCode, Unwritten, Unwritten)
    /\ UNCHANGED <<shared, now, locals>>

\* ClearCache without clearing the last error.
ClearCacheKeepingError(t) ==
    /\ Lock(t, NoCall)
    /\ g_cachedToken' = ""
    /\ g_tokenTTL' = 0
    /\ g_tokenExpiry' = 0
    /\ Return(t, "ClearCache", 0, Unwritten, Unwritten)
    /\ UNCHANGED <<g_lastError, endpoint, g_endpointUrl, g_hSession, g_initialized, now, locals>>

ClearCache(t) ==
    /\ Lock(t, NoCall)
    /\ g_cachedToken' = ""
    /\ g_tokenTTL' = 0
    /\ g_tokenExpiry' = 0
    /\ g_lastError' = ""
    /\ Return(t, "ClearCache", 0, Unwritten, Unwritten)
    /\ UNCHANGED <<endpoint, g_endpointUrl, g_hSession, g_initialized, now, locals>>

GetLastError(t, given, errorLen) ==
    /\ Lock(t, [NoCall EXCEPT !.outError = given, !.len = errorLen])
    /\ Return(t, "GetLastError", 0, Unwritten,
              IF given /\ errorLen > 0
              THEN StrNCpyTerminated(g_lastError, errorLen) ELSE Unwritten)
    /\ UNCHANGED <<shared, now, locals>>

(* ------------------------------------------------------------------ *)
(* The host's calls and the servers' answers                            *)
(* ------------------------------------------------------------------ *)
Urls == {NullPtr, "", AltEndpointUrl, DefaultEndpointUrl, BadUrl}

Calls ==
    { [key |-> "KEY1", account |-> "ACC1", broker |-> "BROKERX", deviceId |-> "DEV1",
       endpointUrl |-> NullPtr, outToken |-> TRUE, outError |-> TRUE, len |-> 0],
      [key |-> "KEY2", account |-> "ACC\"2", broker |-> "B\\X", deviceId |-> "DEV\n2",
       endpointUrl |-> AltEndpointUrl, outToken |-> TRUE, outError |-> TRUE, len |-> 0],
      [key |-> NullPtr, account |-> NullPtr, broker |-> NullPtr, deviceId |-> NullPtr,
       endpointUrl |-> BadUrl, outToken |-> FALSE, outError |-> FALSE, len |-> 0] }

WinErrors == {12029}

Failures ==
    { Outcome("connect", 12029, 0, ""),
      Outcome("data", 12030, HTTP_OK, "{\"valid\":true,\"tok") }

Bodies ==
    { "{\"valid\":true,\"token\":\"tok-abc\",\"ttlSeconds\":1}",
      "{\"valid\": true, \"token\": \"tok-xyz\", \"ttlSeconds\": 0}",
      "{\"valid\":true,\"token\":\"tok-abc\",\"ttlSeconds\":-5}",
      "{\"token\":\"tok-xyz\",\"valid\":true}",
      "{\"valid\":true,\"ttlSeconds\":1}",
      "{\"valid\":true,\"token\":\"tok-abc\",\"ttlSeconds\":soon}",
      "{\"valid\":false,\"message\":\"Key revoked\"}",
      "{\"token\":\"tok-abc\",\"ttlSeconds\":60}" }

Responses ==
    {Outcome("ok", 0, HTTP_OK, b) : b \in Bodies} \cup {Outcome("ok", 0, 500, "oops")}

\* The out buffer of GetCachedToken and GetLastError: whether the pointer is
\* not null, and the length passed with it.
Buffers ==
    { [given |-> FALSE, len |-> 0], [given |-> TRUE, len |-> 0],
      [given |-> TRUE, len |-> 4], [given |-> TRUE, len |-> 512] }

\* The steps of the threads T, for the calls C of ValidateLicense and the
\* outcomes O of its HttpPost.
NextOver(T, C, O) ==
    \/ Tick
    \/ \E t \in T :
        \/ \E opened \in BOOLEAN, e \in WinErrors : InitializeLibrary(t, opened, e)
        \/ ShutdownLibrary(t)
        \/ \E url \in Urls : SetEndpoint(t, url)
        \/ \E a \in C : ValidateLicense(t, a)
        \/ ValidateSleep(t)
        \/ \E o \in O : ValidateHttpPost(t, o)
        \/ \E b \in Buffers : GetCachedToken(t, b.given, b.len)
        \/ IsTokenValid(t)
        \/ GetTokenTTL(t)
        \/ ClearCache(t)
        \/ \E b \in Buffers : GetLastError(t, b.given, b.len)
        \/ Unlock(t)

\* One host thread calling the library.
Next == NextOver({1}, Calls, Failures \cup Responses)

Spec == Init /\ [][Next]_vars

\* Two host threads calling the library at once, with fewer calls and answers.
CallsMT == {c \in Calls : c.key = "KEY1"}
OutcomesMT ==
    { Outcome("connect", 12029, 0, ""),
      Outcome("ok", 0, HTTP_OK, "{\"valid\":true,\"token\":\"tok-abc\",\"ttlSeconds\":1}"),
      Outcome("ok", 0, 500, "oops") }

NextMT == NextOver(Threads, CallsMT, OutcomesMT)

SpecMT == Init /\ [][NextMT]_vars

\* Two host threads under a fair scheduler: every Sleep and every HttpPost
\* returns, and a thread at its return statement leaves the function.  An
\* HttpPost that may return with a connection failure is not waited for
\* forever; it returns with that or with any other outcome.
Fairness ==
    \A t \in Threads :
        /\ WF_vars(ValidateSleep(t))
        /\ WF_vars(ValidateHttpPost(t, Outcome("connect", 12029, 0, "")))
        /\ WF_vars(Unlock(t))

SpecLive == SpecMT /\ Fairness

(* ------------------------------------------------------------------ *)
(* Properties                                                           *)
(* ------------------------------------------------------------------ *)
\* Thread t stands at the return statement of ValidateLicense, with this code.
ValidateReturns(t, code) ==
    /\ pc[t] = "return"
    /\ ret[t].op = "ValidateLicense"
    /\ ~ret[t].threw
    /\ ret[t].code = code

\* The step in which thread t calls ValidateLicense.
ValidateCalled(t) ==
    /\ pc[t] = "idle"
    /\ \/ pc'[t] = "post"
       \/ pc'[t] = "return" /\ ret'[t].op = "ValidateLicense"

\* The step in which thread t's ValidateLicense returns this code.
ValidateReturnsNext(t, code) ==
    /\ pc'[t] = "return"
    /\ ret'[t].op = "ValidateLicense"
    /\ ~ret'[t].threw
    /\ ret'[t].code = code

\* What the caller finds in an out buffer it passed (given) or did not pass.
Received(given, text) == IF given THEN text ELSE Unwritten

Posts(t) == {i \in DOMAIN log[t] : log[t][i].op = "HttpPost"}

\* C1: a ValidateLicense called while the library is initialized, the cached
\* token is not empty and now < expiry returns 0 at once with exactly the
\* cached token, calls neither HttpPost nor Sleep, and leaves the cached
\* token, its TTL and its expiry as they were.
C1_CacheHit ==
    [][\A t \in Threads :
         (ValidateCalled(t) /\ g_initialized /\ g_cachedToken # "" /\ now < g_tokenExpiry)
            => /\ ValidateReturnsNext(t, 0)
               /\ ret'[t].outToken = Received(call'[t].outToken, g_cachedToken)
               /\ log'[t] = <<>>
               /\ cache' = cache]_vars

\* A cache hit has returned a token cached earlier, in the last tick before
\* its expiry.
C1_Witness ==
    \E t \in Threads :
        /\ ValidateReturns(t, 0)
        /\ log[t] = <<>>
        /\ ret[t].outToken = g_cachedToken
        /\ g_cachedToken = "tok-abc"
        /\ now + 1 = g_tokenExpiry

\* C2: a ValidateLicense whose HttpPost calls all fail returns -2 only after
\* exactly three of them, with Sleep(1000) before the second and Sleep(2000)
\* before the third and no Sleep before the first; the error it returns and
\* leaves in g_lastError is the one the third HttpPost reported.
C2_ThreeAttempts ==
    \A t \in Threads :
        /\ \A i \in DOMAIN log[t] :
              IF i % 2 = 1
              THEN log[t][i].op = "HttpPost"
              ELSE log[t][i] = LogSleep(IF i = 2 THEN 1000 ELSE 2000)
        /\ (pc[t] = "return" /\ log[t] # <<>> /\ ~log[t][Len(log[t])].ok)
              => /\ ValidateReturns(t, -2)
                 /\ Len(log[t]) = 5
                 /\ \A i \in Posts(t) : ~log[t][i].ok
                 /\ g_lastError = log[t][5].err
                 /\ ret[t].outError = Received(call[t].outError, log[t][5].err)
        /\ ValidateReturns(t, -2) => (log[t] # <<>> /\ ~log[t][Len(log[t])].ok)

\* Three attempts failed, the third otherwise than the first two, and the
\* caller got the third's error.
C2_Witness ==
    \E t \in Threads :
        /\ ValidateReturns(t, -2)
        /\ Len(log[t]) = 5
        /\ log[t][1].err = "Failed to query data: 12030"
        /\ log[t][3].err = "Failed to query data: 12030"
        /\ ret[t].outError = "Failed to connect to server: 12029"

\* C3: within one ValidateLicense an HttpPost that completed the exchange is
\* the last transport attempt, whatever its status, and the call returns right
\* after it; when the status is not 200 it returns -3 and the error text is
\* "HTTP <status>: <body>".
C3_NoRetryAfterExchange ==
    \A t \in Threads :
        /\ \A i \in Posts(t) :
              log[t][i].ok => (i = Len(log[t]) /\ pc[t] = "return")
        /\ (pc[t] = "return" /\ log[t] # <<>> /\ log[t][Len(log[t])].ok
                /\ httpStatus[t] # 200)
              => /\ ValidateReturns(t, -3)
                 /\ g_lastError = "HTTP " \o ToString(httpStatus[t]) \o ": " \o responseBody[t]
                 /\ ret[t].outError = Received(call[t].outError, g_lastError)
        /\ ValidateReturns(t, -3)
              => (log[t] # <<>> /\ log[t][Len(log[t])].ok /\ httpStatus[t] # 200)

\* A status 500 answered the third attempt and was not retried.
C3_Witness ==
    \E t \in Threads :
        /\ ValidateReturns(t, -3)
        /\ Len(log[t]) = 5
        /\ ret[t].outError = "HTTP 500: oops"

\* C4: a ValidateLicense that returns -2 or -3 leaves the cached token, its
\* TTL and its expiry as it found them.
C4_FailureKeepsCache ==
    \A t \in Threads :
        (ValidateReturns(t, -2) \/ ValidateReturns(t, -3))
            => /\ g_cachedToken = entry[t].token
               /\ g_tokenTTL = entry[t].ttl
               /\ g_tokenExpiry = entry[t].expiry

\* A failed call has left an expired token in the cache.
C4_Witness ==
    \E t \in Threads :
        /\ ValidateReturns(t, -2) \/ ValidateReturns(t, -3)
        /\ g_cachedToken = "tok-abc"
        /\ g_tokenTTL = 1
        /\ g_tokenExpiry <= now

\* The answers of the model's server that do not say "valid":true, each with
\* the value of its "message".
InvalidAnswers ==
    { [body |-> "{\"valid\":false,\"message\":\"Key revoked\"}", message |-> "Key revoked"],
      [body |-> "{\"token\":\"tok-abc\",\"ttlSeconds\":60}", message |-> ""] }

\* Thread t's ValidateLicense has returned after an exchange that completed
\* with status 200 and this body.
AnsweredWith(t, body) ==
    /\ pc[t] = "return"
    /\ log[t] # <<>>
    /\ log[t][Len(log[t])].ok
    /\ httpStatus[t] = 200
    /\ responseBody[t] = body

\* C5: a status-200 answer whose "valid" is false or absent makes
\* ValidateLicense return -4 and empties the cached token, so that
\* GetCachedToken yields -1; the last error is the answer's "message", or
\* "License invalid" when it has none.  Nothing else returns -4.
C5_InvalidClearsCache ==
    \A t \in Threads :
        /\ \A x \in InvalidAnswers :
              AnsweredWith(t, x.body)
                 => /\ ValidateReturns(t, -4)
                    /\ g_cachedToken = ""
                    /\ GetCachedTokenCode = -1
                    /\ g_lastError = (IF x.message = "" THEN "License invalid" ELSE x.message)
                    /\ ret[t].outError = Received(call[t].outError, g_lastError)
        /\ ValidateReturns(t, -4)
              => \E x \in InvalidAnswers : AnsweredWith(t, x.body)

\* An answer without "valid" has cleared a token that was cached.
C5_Witness ==
    \E t \in Threads :
        /\ ValidateReturns(t, -4)
        /\ entry[t].token = "tok-abc"
        /\ g_cachedToken = ""
        /\ ret[t].outError = "License invalid"

\* The step in which thread t's ValidateLicense returns 0 with the token a
\* server sent.
ValidatedNext(t) == pc[t] = "post" /\ ValidateReturnsNext(t, 0)

\* Thread t's ValidateLicense hits the cache in this step.
HitsCacheNext(t) ==
    /\ ValidateReturnsNext(t, 0)
    /\ ret'[t].outToken = Received(call'[t].outToken, g_cachedToken)
    /\ log'[t] = <<>>
    /\ cache' = cache

\* C6 as claimed: a ValidateLicense that returns 0 with a server's answer
\* leaves the returned token cached with g_tokenTTL > 0 and expiry = now + TTL;
\* and while that entry is in the cache (g_tokenTTL > 0: ClearCache,
\* ShutdownLibrary and an invalid answer all reset it to 0) and now < expiry,
\* every ValidateLicense returns the cached token without transport attempt.
C6_AsClaimed ==
    [][\A t \in Threads :
         /\ ValidatedNext(t)
               => /\ ret'[t].outToken = Received(call[t].outToken, g_cachedToken')
                  /\ g_tokenTTL' > 0
                  /\ g_tokenExpiry' = now + g_tokenTTL' * TicksPerSec
         /\ (ValidateCalled(t) /\ g_initialized /\ g_tokenTTL > 0 /\ now < g_tokenExpiry)
               => HitsCacheNext(t)]_vars

\* C6 amended: the same, for a returned token that is not empty.
C6_CachedThenHit ==
    [][\A t \in Threads :
         /\ ValidatedNext(t)
               => /\ ret'[t].outToken = Received(call[t].outToken, g_cachedToken')
                  /\ g_tokenTTL' > 0
                  /\ g_tokenExpiry' = now + g_tokenTTL' * TicksPerSec
         /\ (ValidateCalled(t) /\ g_initialized /\ g_tokenTTL > 0 /\ now < g_tokenExpiry
                /\ g_cachedToken # "")
               => HitsCacheNext(t)]_vars

\* A token a server sent has been cached for one second, time has passed, and
\* a later ValidateLicense has returned it from the cache.
C6_Witness ==
    \E t \in Threads :
        /\ ValidateReturns(t, 0)
        /\ log[t] = <<>>
        /\ g_tokenTTL = 1
        /\ ret[t].outToken = "tok-abc"
        /\ now + 1 = g_tokenExpiry

\* The answers of the model's server that say "valid":true, each with its
\* "token" and its "ttlSeconds" (absent: the key is missing).
ValidAnswers ==
    { [body |-> "{\"valid\":true,\"token\":\"tok-abc\",\"ttlSeconds\":1}",
       token |-> "tok-abc", absent |-> FALSE, ttlSeconds |-> 1],
      [body |-> "{\"valid\": true, \"token\": \"tok-xyz\", \"ttlSeconds\": 0}",
       token |-> "tok-xyz", absent |-> FALSE, ttlSeconds |-> 0],
      [body |-> "{\"valid\":true,\"token\":\"tok-abc\",\"ttlSeconds\":-5}",
       token |-> "tok-abc", absent |-> FALSE, ttlSeconds |-> -5],
      [body |-> "{\"token\":\"tok-xyz\",\"valid\":true}",
       token |-> "tok-xyz", absent |-> TRUE, ttlSeconds |-> 0],
      [body |-> "{\"valid\":true,\"ttlSeconds\":1}",
       token |-> "", absent |-> FALSE, ttlSeconds |-> 1] }

\* The TTL the claim gives an answer.
ClaimedTtl(x) == IF x.absent \/ x.ttlSeconds <= 0 THEN 900 ELSE x.ttlSeconds

\* C7: an answer that says "valid":true is cached with a TTL of 900 seconds
\* when its ttlSeconds is absent, 0 or negative, and with its ttlSeconds when
\* that is positive; the expiry is the time of caching plus that TTL.
C7_DefaultTtl ==
    [][\A t \in Threads : \A x \in ValidAnswers :
         (pc[t] = "post" /\ pc'[t] = "return" /\ log'[t][Len(log'[t])].ok
             /\ httpStatus'[t] = 200 /\ responseBody'[t] = x.body)
            => /\ ValidateReturnsNext(t, 0)
               /\ g_cachedToken' = x.token
               /\ g_tokenTTL' = ClaimedTtl(x)
               /\ g_tokenExpiry' = now + ClaimedTtl(x) * TicksPerSec]_vars

\* A token with a negative ttlSeconds has been cached for 900 seconds.
C7_Witness ==
    \E t \in Threads :
        /\ ValidateReturns(t, 0)
        /\ AnsweredWith(t, "{\"valid\":true,\"token\":\"tok-abc\",\"ttlSeconds\":-5}")
        /\ g_tokenTTL = 900
        /\ g_tokenExpiry = now + 900 * TicksPerSec

\* C9: g_initialized is false at first, becomes true only when
\* InitializeLibrary returns 0 and is false when ShutdownLibrary returns; a
\* ValidateLicense called while it is false returns -1 with
\* "Library not initialized", makes no transport attempt and changes neither
\* the cache nor the endpoint.
C9_NotInitialized ==
    [][\A t \in Threads :
         /\ (ValidateCalled(t) /\ ~g_initialized)
               => /\ ValidateReturnsNext(t, -1)
                  /\ ret'[t].outError = Received(call'[t].outError, "Library not initialized")
                  /\ log'[t] = <<>>
                  /\ cache' = cache
                  /\ endpoint' = endpoint
                  /\ g_endpointUrl' = g_endpointUrl
         /\ (pc[t] = "idle" /\ pc'[t] = "return" /\ ret'[t].op = "ShutdownLibrary")
               => ~g_initialized'
         /\ (~g_initialized /\ g_initialized' /\ pc'[t] # pc[t])
               => (pc'[t] = "return" /\ ret'[t].op = "InitializeLibrary" /\ ret'[t].code = 0)]_vars

\* ValidateLicense has returned -1 after a shutdown: an expiry is left from
\* the time the library was initialized.
C9_Witness ==
    \E t \in Threads :
        /\ ValidateReturns(t, -1)
        /\ ~g_initialized
        /\ g_tokenExpiry > 0
        /\ g_endpointHost = "localhost"

\* C10: when ValidateLicense returns a negative code, g_lastError, which
\* GetLastError copies out, is the error text of that failure.
C10_LastErrorOverwritten ==
    \A t \in Threads :
        (pc[t] = "return" /\ ret[t].op = "ValidateLicense" /\ ~ret[t].threw
            /\ ret[t].code < 0 /\ call[t].outError)
           => g_lastError = ret[t].outError

\* The same for the three failures that come after the initialized check.
C10_AfterInitialized ==
    \A t \in Threads :
        (pc[t] = "return" /\ ret[t].op = "ValidateLicense" /\ ~ret[t].threw
            /\ ret[t].code < -1 /\ call[t].outError)
           => g_lastError = ret[t].outError

\* C8: no two threads are inside an exported function at once, so no two
\* ValidateLicense calls are in their network exchange at once; and while a
\* thread's ValidateLicense is between its cache check and its return, the
\* shared state changes only in that thread's own steps.
C8_MutualExclusion ==
    /\ [](\A t, u \in Threads : (pc[t] # "idle" /\ pc[u] # "idle") => t = u)
    /\ [](\A t \in Threads : pc[t] # "idle" => g_mutex = t)
    /\ [][\A t \in Threads :
            (pc[t] \in {"post", "sleep"} /\ pc'[t] = pc[t] /\ log'[t] = log[t])
               => shared' = shared]_vars

\* One thread's ValidateLicense is asleep between two attempts while the
\* other thread waits for g_mutex.
C8_Witness ==
    /\ pc[1] = "sleep"
    /\ pc[2] = "idle"
    /\ g_mutex = 1
    /\ Len(log[1]) = 3

\* The answer whose ttlSeconds is not a number.
MalformedTtlBody == "{\"valid\":true,\"token\":\"tok-abc\",\"ttlSeconds\":soon}"

\* C11: no exception leaves an exported function, and a status-200 answer that
\* says "valid":true with a ttlSeconds that is not a number makes
\* ValidateLicense return 0 with the token cached for 900 seconds.
C11_MalformedTtlDefaulted ==
    \A t \in Threads :
        /\ ~ret[t].threw
        /\ AnsweredWith(t, MalformedTtlBody)
              => /\ ValidateReturns(t, 0)
                 /\ g_cachedToken = "tok-abc"
                 /\ g_tokenTTL = DEFAULT_TTL

\* The step in which thread t calls the exported function op, which returns
\* in the same step.
CalledNext(t, op) == pc[t] = "idle" /\ pc'[t] = "return" /\ ret'[t].op = op

\* C12: ClearCache leaves the cached token empty, its TTL and expiry zero and
\* the last error empty, so that GetCachedToken yields -1, IsTokenValid 0 and
\* GetTokenTTL 0; a GetCachedToken called while the token is empty returns -1
\* and writes no token; and an empty token becomes non-empty only when a
\* ValidateLicense returns 0 with a server's answer.
C12_ClearCacheEmpties ==
    [][\A t \in Threads :
         /\ CalledNext(t, "ClearCache")
               => /\ g_cachedToken' = "" /\ g_tokenTTL' = 0 /\ g_tokenExpiry' = 0
                  /\ g_lastError' = ""
                  /\ GetCachedTokenCode' = -1
                  /\ IsTokenValidCode' = 0
                  /\ GetTokenTTLCode' = 0
         /\ (CalledNext(t, "GetCachedToken") /\ g_cachedToken = "")
               => (ret'[t].code = -1 /\ ret'[t].outToken = Unwritten)
         /\ (CalledNext(t, "IsTokenValid") /\ g_cachedToken = "") => ret'[t].code = 0
         /\ (CalledNext(t, "GetTokenTTL") /\ g_cachedToken = "") => ret'[t].code = 0
         /\ (g_cachedToken = "" /\ g_cachedToken' # "" /\ pc'[t] # pc[t])
               => ValidatedNext(t)]_vars

\* ClearCache has emptied a cache that held a fresh token and a last error.
C12_Witness ==
    \E t \in Threads :
        /\ pc[t] = "return" /\ ret[t].op = "ClearCache"
        /\ entry[t].token = "tok-abc"
        /\ now < entry[t].expiry
        /\ entry[t].lastError = "Failed to parse URL"
        /\ g_cachedToken = "" /\ g_lastError = "" /\ g_tokenExpiry = 0

\* What the claims say of the cached token at this instant.
TokenPresent == g_cachedToken # ""
TokenFresh == TokenPresent /\ now < g_tokenExpiry

\* C13: at every instant IsTokenValid is 1 exactly when a token is present
\* and now < expiry, which is exactly when GetCachedToken is 0 and when
\* ValidateLicense takes the token from the cache; GetCachedToken is -1 exactly
\* when no token is present and -2 exactly when one is present and
\* now >= expiry.  The two calls return these values, GetCachedToken with the
\* token in a buffer that holds it and with the buffer unwritten otherwise.
C13_FreshnessAgrees ==
    /\ []((IsTokenValidCode = 1) <=> TokenFresh)
    /\ [](IsTokenValidCode \in {0, 1})
    /\ []((GetCachedTokenCode = 0) <=> TokenFresh)
    /\ [](CacheIsFresh <=> TokenFresh)
    /\ []((GetCachedTokenCode = -1) <=> ~TokenPresent)
    /\ []((GetCachedTokenCode = -2) <=> (TokenPresent /\ now >= g_tokenExpiry))
    /\ [][\A t \in Threads :
            /\ CalledNext(t, "IsTokenValid")
                  => ret'[t].code = (IF TokenFresh THEN 1 ELSE 0)
            /\ CalledNext(t, "GetCachedToken")
                  => /\ ret'[t].code = (IF ~TokenPresent THEN -1
                                        ELSE IF now >= g_tokenExpiry THEN -2 ELSE 0)
                     /\ (TokenFresh /\ call'[t].outToken /\ call'[t].len > Len(g_cachedToken))
                           => ret'[t].outToken = g_cachedToken
                     /\ ~TokenFresh => ret'[t].outToken = Unwritten]_vars

\* GetCachedToken has returned -2 at the very instant of the expiry.
C13_Witness ==
    \E t \in Threads :
        /\ pc[t] = "return" /\ ret[t].op = "GetCachedToken"
        /\ ret[t].code = -2
        /\ g_cachedToken = "tok-abc"
        /\ now = g_tokenExpiry

\* expiry - now in ticks, and in whole seconds rounded up, bounded below at 0.
RemainingTicks == IF g_tokenExpiry > now THEN g_tokenExpiry - now ELSE 0
CeilSeconds(ticks) == (ticks + TicksPerSec - 1) \div TicksPerSec

\* C14 as claimed: for every cached token and every instant, GetTokenTTL is
\* expiry - now in whole seconds rounded up, bounded below at 0.
C14_TtlIsCeiling ==
    /\ [](TokenPresent => GetTokenTTLCode = CeilSeconds(RemainingTicks))
    /\ [][\A t \in Threads :
            (CalledNext(t, "GetTokenTTL") /\ TokenPresent)
               => ret'[t].code = CeilSeconds(RemainingTicks)]_vars

\* C14 amended: GetTokenTTL is that ceiling only when expiry - now is a whole
\* number of seconds, and one less than the ceiling otherwise; it is never
\* negative.
C14_TtlBelowCeiling ==
    /\ [](TokenPresent
            => /\ GetTokenTTLCode >= 0
               /\ GetTokenTTLCode = CeilSeconds(RemainingTicks)
                     - (IF RemainingTicks % TicksPerSec = 0 THEN 0 ELSE 1))
    /\ [][\A t \in Threads :
            (CalledNext(t, "GetTokenTTL") /\ TokenPresent)
               => ret'[t].code = CeilSeconds(RemainingTicks)
                     - (IF RemainingTicks % TicksPerSec = 0 THEN 0 ELSE 1)]_vars

\* GetTokenTTL has returned 899 for a token that expires in 899 seconds and a
\* fraction.
C14_Witness ==
    \E t \in Threads :
        /\ pc[t] = "return" /\ ret[t].op = "GetTokenTTL"
        /\ ret[t].code = DEFAULT_TTL - 1
        /\ g_tokenExpiry - now = DEFAULT_TTL * TicksPerSec - 1

\* C15: GetTokenTTL returns 0 when no token is cached or now >= expiry, and
\* otherwise the number of whole seconds that fit into expiry - now, which is
\* 0 during the last fraction of a second, while IsTokenValid is still 1.
C15_TtlTruncates ==
    /\ []((~TokenPresent \/ now >= g_tokenExpiry) => GetTokenTTLCode = 0)
    /\ [](TokenFresh
            => /\ GetTokenTTLCode * TicksPerSec <= g_tokenExpiry - now
               /\ g_tokenExpiry - now < (GetTokenTTLCode + 1) * TicksPerSec)
    /\ []((TokenFresh /\ g_tokenExpiry - now < TicksPerSec)
            => (GetTokenTTLCode = 0 /\ IsTokenValidCode = 1))
    /\ [][\A t \in Threads :
            CalledNext(t, "GetTokenTTL") => ret'[t].code = GetTokenTTLCode]_vars

\* GetTokenTTL has returned 0 for a token that IsTokenValid still calls valid.
C15_Witness ==
    \E t \in Threads :
        /\ pc[t] = "return" /\ ret[t].op = "GetTokenTTL"
        /\ ret[t].code = 0
        /\ IsTokenValidCode = 1
        /\ g_tokenExpiry - now = 1

\* C16: InitializeLibrary called while g_initialized returns 0 and changes no
\* shared state: no session is opened, and the endpoint, the cache and the last
\* error stay.  The session handle changes only when an InitializeLibrary
\* called while not initialized opens it and returns 0, and when
\* ShutdownLibrary closes it; while g_initialized the handle is there, so the
\* HttpPost calls of every ValidateLicense in between use that one session.
C16_InitializeIdempotent ==
    /\ [](g_initialized => g_hSession)
    /\ [][\A t \in Threads :
            /\ (CalledNext(t, "InitializeLibrary") /\ g_initialized)
                  => (ret'[t].code = 0 /\ shared' = shared)
            /\ (g_hSession' # g_hSession /\ pc'[t] # pc[t])
                  => \/ /\ CalledNext(t, "InitializeLibrary")
                        /\ ~g_initialized /\ g_initialized' /\ g_hSession'
                        /\ ret'[t].code = 0
                     \/ /\ CalledNext(t, "ShutdownLibrary")
                        /\ g_initialized /\ ~g_initialized' /\ ~g_hSession'
            /\ (pc[t] = "post" /\ pc'[t] # "post" /\ g_initialized)
                  => (g_hSession /\ log'[t][Len(log'[t])].err # "HTTP session not initialized")]_vars

\* A second InitializeLibrary has returned 0 and left alone a cached token and
\* an endpoint that a ValidateLicense override had set.
C16_Witness ==
    \E t \in Threads :
        /\ pc[t] = "return" /\ ret[t].op = "InitializeLibrary" /\ ret[t].code = 0
        /\ entry[t].initialized
        /\ g_endpointHost = "localhost"
        /\ g_endpointUrl = DefaultEndpointUrl
        /\ g_cachedToken = "tok-abc"

\* C17: when ShutdownLibrary returns the session is closed, g_initialized is
\* false and the cached token is empty, so GetCachedToken yields -1 and
\* IsTokenValid 0; the token stays empty until a ValidateLicense returns 0 with
\* a server's answer; and a ShutdownLibrary called while not initialized (a
\* second one, or one before any InitializeLibrary) changes no shared state.
C17_ShutdownIdempotent ==
    /\ [](~g_initialized => (g_cachedToken = "" /\ ~g_hSession))
    /\ [][\A t \in Threads :
            /\ CalledNext(t, "ShutdownLibrary")
                  => /\ ~g_hSession' /\ ~g_initialized'
                     /\ g_cachedToken' = ""
                     /\ GetCachedTokenCode' = -1
                     /\ IsTokenValidCode' = 0
                     /\ ret'[t].code = 0
            /\ (CalledNext(t, "ShutdownLibrary") /\ ~g_initialized) => shared' = shared
            /\ (g_cachedToken = "" /\ g_cachedToken' # "" /\ pc'[t] # pc[t])
                  => (ValidatedNext(t) /\ g_initialized)]_vars

\* ShutdownLibrary has emptied a cache whose token had not expired; the expiry
\* is still in the future.
C17_Witness ==
    \E t \in Threads :
        /\ pc[t] = "return" /\ ret[t].op = "ShutdownLibrary"
        /\ entry[t].initialized /\ entry[t].hSession
        /\ entry[t].token = "tok-abc"
        /\ g_cachedToken = "" /\ ~g_hSession /\ ~g_initialized
        /\ now < g_tokenExpiry

\* What an endpointUrl argument makes of ParseUrl, and the endpoint it names.
NoUrl(url) == url = NullPtr \/ url = ""
Resolves(url) == ~NoUrl(url) /\ WinHttpCrackUrl(Utf8ToWide(url)).ok
Unparsable(url) == ~NoUrl(url) /\ ~WinHttpCrackUrl(Utf8ToWide(url)).ok
Cracked(url) ==
    LET c == WinHttpCrackUrl(Utf8ToWide(url)) IN <<c.host, c.path, c.port, c.https>>

\* The endpoint thread t found when it took g_mutex, and the one its latest
\* HttpPost went to.
EntryEndpoint(t) == <<entry[t].host, entry[t].path, entry[t].port, entry[t].https>>
PostedTo(e) == <<e.host, e.path, e.port, e.https>>

\* The step in which thread t's ValidateLicense runs HttpPost.
PostsNext(t) == pc[t] = "post" /\ pc'[t] # "post"

\* C18: a SetEndpoint with an empty or unparsable URL and a ValidateLicense
\* with an unparsable override leave host, path, port and scheme as they were;
\* such a ValidateLicense, when it misses the cache, still goes on to HttpPost,
\* and each of its attempts goes to the endpoint it found.
C18_BadUrlKeepsEndpoint ==
    [][\A t \in Threads :
         /\ (CalledNext(t, "SetEndpoint")
                /\ (NoUrl(call'[t].endpointUrl) \/ Unparsable(call'[t].endpointUrl)))
               => (endpoint' = endpoint /\ g_endpointUrl' = g_endpointUrl)
         /\ (ValidateCalled(t) /\ Unparsable(call'[t].endpointUrl))
               => /\ endpoint' = endpoint
                  /\ (g_initialized /\ ~CacheIsFresh) => pc'[t] = "post"
         /\ (PostsNext(t) /\ Unparsable(call[t].endpointUrl))
               => /\ PostedTo(log'[t][Len(log'[t])]) = EntryEndpoint(t)
                  /\ endpoint' = EntryEndpoint(t)]_vars

\* A ValidateLicense with an unparsable override has obtained a token from
\* the endpoint that was configured before.
C18_Witness ==
    \E t \in Threads :
        /\ ValidateReturns(t, 0)
        /\ call[t].endpointUrl = BadUrl
        /\ log[t] # <<>>
        /\ log[t][1].host = "localhost"
        /\ g_endpointHost = "localhost" /\ g_endpointPort = 8080 /\ ~g_useHttps

ValidateCodes == {0, -1, -2, -3, -4}

\* C20: a ValidateLicense makes at most MAX_RETRIES transport attempts and
\* leaves by returning one of its documented codes.
C20_ReturnsAnOutcome ==
    \A t \in Threads :
        /\ attempt[t] <= MAX_RETRIES
        /\ Cardinality(Posts(t)) <= MAX_RETRIES
        /\ (pc[t] = "return" /\ ret[t].op = "ValidateLicense")
              => (~ret[t].threw /\ ret[t].code \in ValidateCodes)

\* Under the fair scheduler every call that holds g_mutex releases it, and
\* g_mutex is free again and again, so a thread that waits for it can take it.
LockReleased ==
    /\ \A t \in Threads : (pc[t] # "idle") ~> (pc[t] = "idle")
    /\ []<>(g_mutex = NoThread)

\* The calls of the model with every override URL of the model.
CallArgs == {[a EXCEPT !.endpointUrl = url] : a \in Calls, url \in Urls}

\* What a cache hit of thread t with the arguments a leaves: the return at
\* once with 0 and the cached token, no transport attempt, the shared state as
\* it was.
CacheHitWith(t, a) ==
    /\ pc'[t] = "return"
    /\ ret'[t].op = "ValidateLicense" /\ ~ret'[t].threw /\ ret'[t].code = 0
    /\ ret'[t].outToken = Received(a.outToken, g_cachedToken)
    /\ log'[t] = <<>>
    /\ shared' = shared

\* C21: in every state where the library is initialized and the cached token
\* is fresh, ValidateLicense called with any license key, account, broker,
\* device id and override URL can only return 0 with that cached token: its
\* result is the same for all arguments, so the token is handed to a caller
\* that presents another key than the one it was cached for.
C21_CacheHitIgnoresArguments ==
    \A t \in Threads :
        (CanLock(t) /\ g_initialized /\ CacheIsFresh)
           => \A a \in CallArgs :
                 /\ ENABLED (ValidateLicense(t, a) /\ CacheHitWith(t, a))
                 /\ ~ENABLED (ValidateLicense(t, a) /\ ~CacheHitWith(t, a))

\* A caller that presents KEY2 and an override URL has been handed the cached
\* token, and the endpoint is not the override's.
C21_Witness ==
    \E t \in Threads :
        /\ ValidateReturns(t, 0)
        /\ log[t] = <<>>
        /\ call[t].key = "KEY2" /\ call[t].endpointUrl = AltEndpointUrl
        /\ ret[t].outToken = "tok-xyz" /\ g_cachedToken = "tok-xyz"
        /\ g_endpointHost = "api.hedge-edge.com"
        /\ now < g_tokenExpiry

\* C22: between operations (g_mutex free) the library is initialized exactly
\* when the session handle exists, and a non-empty cached token exists only
\* while it is initialized; an InitializeLibrary that fails leaves it not
\* initialized and without handle; and a ValidateLicense that has passed the
\* initialized check has the handle at each HttpPost, none of which reports
\* "HTTP session not initialized".
C22_InitializedIffSession ==
    /\ [](g_mutex = NoThread => (g_initialized <=> g_hSession))
    /\ [](g_mutex = NoThread => (g_cachedToken # "" => g_initialized))
    /\ [](\A t \in Threads :
            (pc[t] \in {"post", "sleep"}) => (g_initialized /\ g_hSession))
    /\ [](\A t \in Threads : \A i \in Posts(t) :
            log[t][i].err # "HTTP session not initialized")
    /\ [][\A t \in Threads :
            (CalledNext(t, "InitializeLibrary") /\ ret'[t].code # 0)
               => (~g_initialized' /\ ~g_hSession')]_vars

\* An InitializeLibrary has failed after the library had been initialized and
\* shut down: it is not initialized, has no handle and the token is empty.
C22_Witness ==
    \E t \in Threads :
        /\ pc[t] = "return" /\ ret[t].op = "InitializeLibrary" /\ ret[t].code = -1
        /\ ~g_initialized /\ ~g_hSession
        /\ g_cachedToken = ""
        /\ g_tokenExpiry > 0
        /\ g_lastError = "Failed to create HTTP session: 12029"

====
